---- MODULE Spec2Model ----
(***************************************************************************)
(* Questrade asset tracker: the refresh-token store (src/src/db.rs), the   *)
(* token rotation of QuestradeAPI::new (src/src/questrade_api.rs), the     *)
(* start-up of main (src/src/main.rs), the fetch loop of AssetTracker::new *)
(* (src/src/asset_tracker.rs) and the aggregator Assets                    *)
(* (src/src/assets.rs).                                                    *)
(*                                                                         *)
(* Three specifications share the variables:                               *)
(*   Spec       runs of the program, one after another, on one database;   *)
(*   SpecStore  clients calling the DatabaseAPI operations directly;       *)
(*   SpecAssets add_positions and Display calls on one Assets value.       *)
(*                                                                         *)
(* Money amounts (f64 in the source) are modelled as exact integers, so    *)
(* floating-point rounding of sums is outside the model; the IEEE results  *)
(* of a division by zero (NaN, inf, -inf) are modelled explicitly.         *)
(***************************************************************************)
EXTENDS Integers, Sequences, FiniteSets, TLC

(* ------------------------------ bounds -------------------------------- *)

\* program runs (invocations of main) on the same database file
MaxRuns == 2
\* accounts in one account-listing response
MaxAccounts == 2
\* positions in one positions response
MaxPositions == 1
\* positions accumulated in all under SpecAssets
MaxFed == 3
\* positions in one add_positions call under SpecAssets
MaxBatch == 2
\* clients of the store under SpecStore
MaxClients == 2
\* rows of the refresh_token table under SpecStore
MaxRows == 2

(* --------------------------- program constants ------------------------ *)

\* targets and margins in hundredths of a percentage point
STOCK_TARGET == 5000
BOND_TARGET == 5000
CASH_TARGET == 0
MARGIN_OF_WARNING == 250
MARGIN_OF_ERROR == 500

(* ------------------------------ helpers ------------------------------- *)

\* Option<T> as a sequence of length at most one
None == << >>

Some(x) == << x >>

\* the refresh tokens the authorization server issues: a run uses at most
\* two, the one given with --auth and the one of its exchange
MaxTokens == 2 * MaxRuns

Tokens == 1..MaxTokens

Abs(x) == IF x < 0 THEN -x ELSE x

\* all orderings of the elements of a finite set
RECURSIVE Perms(_)
Perms(S) ==
  IF S = {} THEN { << >> }
  ELSE UNION { { << x >> \o p : p \in Perms(S \ {x}) } : x \in S }

\* sequences over S of length at most n
RECURSIVE SeqsUpTo(_, _)
SeqsUpTo(S, n) ==
  IF n = 0 THEN { << >> }
  ELSE LET shorter == SeqsUpTo(S, n - 1)
       IN  shorter \cup { Append(s, x) : s \in { t \in shorter : Len(t) = n - 1 }, x \in S }

(* ------------------------------ variables ----------------------------- *)

VARIABLES
  table,        \* rows of the refresh_token table, in rowid order
  srv_valid,    \* refresh tokens the authorization server still accepts
  srv_next,     \* the next token the authorization server issues
  run,          \* number of program runs started
  pc,           \* position of the current run
  opt,          \* Opt.authorization_token of the current run
  refresh_token,\* the RefreshToken QuestradeAPI::new read (Option)
  resp,         \* the last answer of the authorization endpoint (Option)
  token,        \* QuestradeAPI::new: the OAuth2Token of the exchange (Option)
  questrade_api,\* main: the token of the QuestradeAPI it holds (Option)
  err,          \* the error the run reported
  committed,    \* the store update of this run returned Ok
  table0,       \* the table when the run started
  requests,     \* data-fetch calls issued by this run, in order
  accounts,     \* AssetTracker::new: accounts
  acct,         \* index of the account being fetched
  acct_positions, \* positions of the account being fetched
  pos,          \* index of the position whose symbol is looked up
  balances,     \* account ids with balances
  positions,    \* account ids with positions stored
  symbols,      \* symbol_id -> Symbol
  failed_fetch, \* account index whose fetch failed (0: none)
  assets,       \* the Assets value: totals, asset_map, class_map
  asset_iter,   \* iteration order of asset_map (HashMap layout)
  class_iter,   \* iteration order of class_map (HashMap layout)
  fed,          \* every position given to add_positions, in order
  summary,      \* the last Display output since the last add_positions
  repeated,     \* that output was produced more than once
  handles,      \* SpecStore: the RefreshToken each client holds
  last_swap     \* SpecStore: the last update_refresh_token call

storeVars == << table >>
serverVars == << srv_valid, srv_next >>
rotVars == << run, pc, opt, refresh_token, resp, token, questrade_api, err,
             committed, table0 >>
fetchVars == << requests, accounts, acct, acct_positions, pos, balances,
                positions, symbols, failed_fetch >>
assetVars == << assets, asset_iter, class_iter, fed >>
showVars == << summary, repeated >>
clientVars == << handles, last_swap >>

vars == << table, srv_valid, srv_next, run, pc, opt, refresh_token, resp, token,
           questrade_api, err, committed, table0, requests, accounts, acct, acct_positions, pos,
           balances, positions, symbols, failed_fetch, assets, asset_iter,
           class_iter, fed, summary, repeated, handles, last_swap >>


(* ------------------- the refresh-token store (db.rs) ------------------ *)

\* a row of the refresh_token table: struct RefreshToken
RefreshToken(id, value) == [id |-> id, refresh_token |-> value]

\* SELECT * FROM refresh_token, fetch_one: the first row in rowid order;
\* None stands for Err(RowNotFound)
get_refresh_token(tbl) == IF tbl = << >> THEN None ELSE Some(tbl[1])

\* INSERT INTO refresh_token (refresh_token) VALUES (?): a new row with the
\* next AUTOINCREMENT id (rows are never deleted)
insert_refresh_token(tbl, value) == Append(tbl, RefreshToken(Len(tbl) + 1, value))

\* a store update that writes back the value that was read
update_refresh_token_stale(tbl, tok, new_value) ==
  [i \in DOMAIN tbl |->
     IF tbl[i].id = tok.id THEN [tbl[i] EXCEPT !.refresh_token = tok.refresh_token]
     ELSE tbl[i]]

\* UPDATE refresh_token SET refresh_token = ? WHERE id = ?: every row with
\* the id of the RefreshToken read, whatever value it holds now
update_refresh_token(tbl, tok, new_value) ==
  [i \in DOMAIN tbl |->
     IF tbl[i].id = tok.id THEN [tbl[i] EXCEPT !.refresh_token = new_value]
     ELSE tbl[i]]

(* ------------------------- errors and responses ----------------------- *)

\* QuestradeAPIError, with the text it carries
Error(kind, msg) == [kind |-> kind, msg |-> msg]

NoError == Error("none", "")

\* the three ways a data request fails: send()? (RequestError), a status
\* that is not a success (APIError with the body), serde_json (JSONError)
FetchErrors ==
  { Error("RequestError", "transport"),
    Error("APIError", "error_payload"),
    Error("JSONError", "serde_json") }

\* the answers of the authorization endpoint to a request carrying
\* refresh token t: a 2xx with the token JSON when the server accepts t
\* and can issue a token, a non-2xx with an error payload, or a 2xx whose
\* body is not the token JSON
OAuthResponses(t) ==
  (IF t \in srv_valid /\ srv_next <= MaxTokens
     THEN { [status |-> "2xx", body |-> "token_json"] }
     ELSE { })
  \cup { [status |-> "non2xx", body |-> "error_payload"],
         [status |-> "2xx", body |-> "garbage"] }

\* get_oauth2_token after send() and text(): serde_json::from_str on the
\* body, whatever the status was
get_oauth2_token(r) ==
  IF r.body = "token_json"
    THEN [ok |-> TRUE,
          token |-> [access_token |-> srv_next, refresh_token |-> srv_next],
          err |-> NoError]
    ELSE [ok |-> FALSE, token |-> [access_token |-> 0, refresh_token |-> 0],
          err |-> Error("JSONError", "serde_json")]

(* --------------------------- Assets (assets.rs) ------------------------ *)

\* a Position, with the fields the aggregator and the symbol lookup read
Position(symbol, symbol_id, total_cost, current_market_value) ==
  [symbol |-> symbol, symbol_id |-> symbol_id, total_cost |-> total_cost,
   current_market_value |-> current_market_value]

\* enum AssetClass
AssetClass == { "Stocks", "Bonds", "Cash" }

\* Assets::new: asset_class_map
asset_to_class_map ==
  ("XEQT.TO" :> "Stocks") @@ ("ZEQT.TO" :> "Stocks") @@ ("ZAG.TO" :> "Bonds")

\* asset_to_class_map.get(&position.symbol).unwrap_or(&AssetClass::Cash)
classify(symbol) ==
  IF symbol \in DOMAIN asset_to_class_map THEN asset_to_class_map[symbol] ELSE "Cash"

\* HashMap::new()
EmptyMap == [k \in {} |-> << 0, 0 >>]

\* Assets::new: the totals and the two empty maps
Assets_new ==
  [total_costs |-> 0, total_market_values |-> 0,
   asset_map |-> EmptyMap, class_map |-> EmptyMap]

\* entry(key).and_modify(|(cost, val)| { cost += book_cost; val += mkt_val })
\*           .or_insert((book_cost, mkt_val))
entry_add(map, key, book_cost, mkt_val) ==
  IF key \in DOMAIN map
    THEN [map EXCEPT ![key] = << @[1] + book_cost, @[2] + mkt_val >>]
    ELSE [k \in DOMAIN map \cup {key} |->
            IF k = key THEN << book_cost, mkt_val >> ELSE map[k]]

\* an entry update that replaces the bucket instead of adding to it
entry_replace(map, key, book_cost, mkt_val) ==
  [k \in DOMAIN map \cup {key} |->
     IF k = key THEN << book_cost, mkt_val >> ELSE map[k]]

\* a loop body that replaces a class bucket that exists already
add_position_replacing(self, position) ==
  [total_costs |-> self.total_costs + position.total_cost,
   total_market_values |-> self.total_market_values + position.current_market_value,
   asset_map |-> entry_add(self.asset_map, position.symbol,
                           position.total_cost, position.current_market_value),
   class_map |-> entry_replace(self.class_map, classify(position.symbol),
                               position.total_cost, position.current_market_value)]

\* a loop body that files every position under its mapped class, and a
\* symbol the mapping lacks under Stocks
add_position_misfiled(self, position) ==
  [total_costs |-> self.total_costs + position.total_cost,
   total_market_values |-> self.total_market_values + position.current_market_value,
   asset_map |-> entry_add(self.asset_map, position.symbol,
                           position.total_cost, position.current_market_value),
   class_map |-> entry_add(self.class_map,
                           IF position.symbol \in DOMAIN asset_to_class_map
                             THEN asset_to_class_map[position.symbol] ELSE "Stocks",
                           position.total_cost, position.current_market_value)]

\* the body of the loop of add_positions, for one position
add_position(self, position) ==
  [total_costs |-> self.total_costs + position.total_cost,
   total_market_values |-> self.total_market_values + position.current_market_value,
   asset_map |-> entry_add(self.asset_map, position.symbol,
                           position.total_cost, position.current_market_value),
   class_map |-> entry_add(self.class_map, classify(position.symbol),
                           position.total_cost, position.current_market_value)]

\* Assets::add_positions: the loop over the positions, in order
RECURSIVE add_positions(_, _)
add_positions(self, ps) ==
  IF ps = << >> THEN self
  ELSE add_positions(add_position(self, Head(ps)), Tail(ps))

\* the iteration orders a HashMap may have after a change of its key set:
\* the order is kept while no key is added, and is arbitrary otherwise
IterOrders(iter, keys) ==
  IF keys = { iter[i] : i \in DOMAIN iter } THEN { iter } ELSE Perms(keys)

\* a descending sort that is not stable: an element is placed before the
\* elements equal to it
RECURSIVE sort_by_value_desc_unstable(_)
sort_by_value_desc_unstable(s) ==
  IF s = << >> THEN << >>
  ELSE LET done == sort_by_value_desc_unstable(SubSeq(s, 1, Len(s) - 1))
           x == s[Len(s)]
           k == Cardinality({ i \in DOMAIN done : done[i][3] > x[3] })
       IN  SubSeq(done, 1, k) \o << x >> \o SubSeq(done, k + 1, Len(done))

\* slice::sort_by(|a, b| b.2.total_cmp(&a.2)): stable, descending by the
\* third component (insertion of each element after the ones not below it)
RECURSIVE sort_by_value_desc(_)
sort_by_value_desc(s) ==
  IF s = << >> THEN << >>
  ELSE LET done == sort_by_value_desc(SubSeq(s, 1, Len(s) - 1))
           x == s[Len(s)]
           k == Cardinality({ i \in DOMAIN done : done[i][3] >= x[3] })
       IN  SubSeq(done, 1, k) \o << x >> \o SubSeq(done, k + 1, Len(done))

\* Assets::get_asset_comp: the (symbol, cost, val) triples in iteration
\* order, then sorted
get_asset_comp(self, iter) ==
  sort_by_value_desc([i \in DOMAIN iter |->
    << iter[i], self.asset_map[iter[i]][1], self.asset_map[iter[i]][2] >>])

\* Assets::get_simplified_comp
get_simplified_comp(self, iter) ==
  sort_by_value_desc([i \in DOMAIN iter |->
    << iter[i], self.class_map[iter[i]][1], self.class_map[iter[i]][2] >>])

\* n / d rounded to the nearest integer, halves away from zero (f64::round)
RoundDiv(n, d) ==
  LET q == (2 * Abs(n) + Abs(d)) \div (2 * Abs(d))
  IN  IF (n < 0) = (d < 0) THEN q ELSE -q

\* mkt_val / self.total_market_values * 100.0 in f64: the exact quotient
\* num / den, or the IEEE result of a division by zero
percent_of(mkt_val, total) ==
  IF total # 0 THEN [kind |-> "num", num |-> mkt_val * 100, den |-> total]
  ELSE IF mkt_val = 0 THEN [kind |-> "NaN", num |-> 0, den |-> 1]
  ELSE IF mkt_val > 0 THEN [kind |-> "inf", num |-> 0, den |-> 1]
  ELSE [kind |-> "-inf", num |-> 0, den |-> 1]

\* (percent * 100.0).round() / 100.0, and the {:.2} of the format string:
\* the percentage in hundredths; NaN and the infinities stay what they are
round2(percent) ==
  [kind |-> percent.kind,
   centi |-> IF percent.kind = "num" THEN RoundDiv(percent.num * 100, percent.den) ELSE 0]

\* the target of colour_percent's match on the asset class
target_of(asset_class) ==
  CASE asset_class = "Stocks" -> STOCK_TARGET
    [] asset_class = "Bonds" -> BOND_TARGET
    [] OTHER -> CASH_TARGET

\* a colouring by |target - percent| of the percentage as divided, shown
\* rounded
colour_percent_unrounded(percent, asset_class) ==
  LET colour ==
        CASE percent.kind = "NaN" -> "yellow"
          [] percent.kind \in { "inf", "-inf" } -> "red"
          [] OTHER ->
               LET x == Abs(target_of(asset_class) * percent.den - percent.num * 100)
               IN  IF x < MARGIN_OF_WARNING * Abs(percent.den) THEN "green"
                   ELSE IF x >= MARGIN_OF_ERROR * Abs(percent.den) THEN "red"
                   ELSE "yellow"
  IN  [text |-> round2(percent), colour |-> colour]

\* Assets::colour_percent: the percentage rounded to two decimals, coloured
\* by |target - percent| of the rounded value; a comparison with NaN is false
colour_percent(percent, asset_class) ==
  LET rounded == round2(percent)
      colour ==
        CASE rounded.kind = "NaN" -> "yellow"
          [] rounded.kind \in { "inf", "-inf" } -> "red"
          [] OTHER ->
               LET x == Abs(target_of(asset_class) - rounded.centi)
               IN  IF x < MARGIN_OF_WARNING THEN "green"
                   ELSE IF x >= MARGIN_OF_ERROR THEN "red"
                   ELSE "yellow"
  IN  [text |-> rounded, colour |-> colour]

\* Assets::display_asset_comp: one row per symbol bucket
display_asset_comp(self, iter) ==
  LET comp == get_asset_comp(self, iter)
  IN  [i \in DOMAIN comp |->
        [symbol |-> comp[i][1], book_cost |-> comp[i][2], mkt_val |-> comp[i][3],
         percent |-> round2(percent_of(comp[i][3], self.total_market_values))]]

\* Assets::display_simplified_comp: one row per class bucket
display_simplified_comp(self, iter) ==
  LET comp == get_simplified_comp(self, iter)
  IN  [i \in DOMAIN comp |->
        [asset_class |-> comp[i][1], book_cost |-> comp[i][2], mkt_val |-> comp[i][3],
         percent |-> colour_percent(percent_of(comp[i][3], self.total_market_values),
                                    comp[i][1])]]

\* impl Display for Assets: what the summary shows
fmt(self, a_iter, c_iter) ==
  [asset_comp |-> display_asset_comp(self, a_iter),
   simplified_comp |-> display_simplified_comp(self, c_iter),
   total_costs |-> self.total_costs,
   total_market_values |-> self.total_market_values]

(* ------------------------------ input data ---------------------------- *)

\* the positions a positions response of a run is made of
RunPool ==
  { Position("XEQT.TO", 3, 1, 1), Position("AAPL", 1, 2, 0) }

\* the dividend a symbol lookup may report
Dividends == { 0, 1 }

\* struct Symbol, with the fields the tracker reads
Symbol(symbol_id, dividend) == [symbol_id |-> symbol_id, dividend |-> dividend]

(* ----------------------- a run of the program: main ------------------- *)

\* the state of a process that has just started
RunReset ==
  /\ refresh_token' = None
  /\ resp' = None
  /\ token' = None
  /\ questrade_api' = None
  /\ err' = NoError
  /\ committed' = FALSE
  /\ table0' = table
  /\ requests' = << >>
  /\ accounts' = << >>
  /\ acct' = 0
  /\ acct_positions' = << >>
  /\ pos' = 0
  /\ balances' = {}
  /\ positions' = {}
  /\ symbols' = EmptyMap
  /\ failed_fetch' = 0
  /\ assets' = Assets_new
  /\ asset_iter' = << >>
  /\ class_iter' = << >>
  /\ fed' = << >>
  /\ summary' = None
  /\ repeated' = FALSE

\* the run ends reporting e (eprintln! and return)
Exit(e) ==
  /\ err' = e
  /\ pc' = "exit"

\* the program is started, with or without --auth; a token given with
\* --auth is one the authorization server has just issued
main_start ==
  /\ pc \in { "idle", "exit" }
  /\ run < MaxRuns
  /\ run' = run + 1
  /\ pc' = "db_new"
  /\ \/ /\ opt' = None
        /\ UNCHANGED serverVars
     \/ /\ srv_next <= MaxTokens
        /\ opt' = Some(srv_next)
        /\ srv_valid' = srv_valid \cup { srv_next }
        /\ srv_next' = srv_next + 1
  /\ RunReset
  /\ UNCHANGED << storeVars, clientVars >>

\* main: DatabaseAPI::new().await, Ok or Err
main_DatabaseAPI_new ==
  /\ pc = "db_new"
  /\ \/ /\ pc' = IF opt = None THEN "read" ELSE "insert"
        /\ UNCHANGED err
     \/ Exit(Error("sqlx", "DatabaseAPI::new"))
  /\ UNCHANGED << storeVars, serverVars, run, opt, refresh_token, resp, token,
                  questrade_api, committed, table0, fetchVars, assetVars,
                  showVars, clientVars >>

\* main: db.insert_refresh_token(&token).await, Ok or Err
main_insert_refresh_token ==
  /\ pc = "insert"
  /\ \/ /\ table' = insert_refresh_token(table, opt[1])
        /\ pc' = "read"
        /\ UNCHANGED err
     \/ /\ Exit(Error("sqlx", "insert_refresh_token"))
        /\ UNCHANGED table
  /\ UNCHANGED << serverVars, run, opt, refresh_token, resp, token,
                  questrade_api, committed, table0, fetchVars, assetVars,
                  showVars, clientVars >>

\* QuestradeAPI::new: get_refresh_token(..)?, Ok with the row or Err
QuestradeAPI_new_get_refresh_token ==
  /\ pc = "read"
  /\ \/ /\ get_refresh_token(table) # None
        /\ refresh_token' = get_refresh_token(table)
        /\ pc' = "exchange"
        /\ UNCHANGED err
     \/ /\ Exit(Error("DBError", "get_refresh_token"))
        /\ UNCHANGED refresh_token
  /\ UNCHANGED << storeVars, serverVars, run, opt, resp, token, questrade_api,
                  committed, table0, fetchVars, assetVars, showVars, clientVars >>

\* QuestradeAPI::new: Self::get_oauth2_token(&client, &refresh_token)?; the
\* server burns the refresh token when it answers with the token JSON
QuestradeAPI_new_get_oauth2_token ==
  /\ pc = "exchange"
  /\ \/ /\ Exit(Error("RequestError", "transport"))
        /\ UNCHANGED << resp, token, serverVars >>
     \/ \E r \in OAuthResponses(refresh_token[1].refresh_token) :
          LET res == get_oauth2_token(r)
          IN  /\ resp' = Some(r)
              /\ IF r.body = "token_json"
                   THEN /\ srv_valid' = (srv_valid \ { refresh_token[1].refresh_token })
                                          \cup { srv_next }
                        /\ srv_next' = srv_next + 1
                   ELSE UNCHANGED serverVars
              /\ IF res.ok
                   THEN /\ token' = Some(res.token)
                        /\ pc' = "update"
                        /\ UNCHANGED err
                   ELSE /\ Exit(res.err)
                        /\ UNCHANGED token
  /\ UNCHANGED << storeVars, run, opt, refresh_token, questrade_api, committed,
                  table0, fetchVars, assetVars, showVars, clientVars >>

\* a rotation that goes on with the access token when the update fails
QuestradeAPI_new_update_lenient ==
  /\ pc = "update"
  /\ \/ /\ table' = update_refresh_token(table, refresh_token[1], token[1].refresh_token)
        /\ committed' = TRUE
        /\ UNCHANGED err
     \/ /\ err' = Error("DBError", "update_refresh_token")
        /\ UNCHANGED << table, committed >>
  /\ questrade_api' = token
  /\ pc' = "accounts"
  /\ UNCHANGED << serverVars, run, opt, refresh_token, resp, token, table0,
                  fetchVars, assetVars, showVars, clientVars >>

\* QuestradeAPI::new: update_refresh_token(..)?; Ok(Self { client, token })
QuestradeAPI_new_update_refresh_token ==
  /\ pc = "update"
  /\ \/ /\ table' = update_refresh_token(table, refresh_token[1], token[1].refresh_token)
        /\ committed' = TRUE
        /\ questrade_api' = token
        /\ pc' = "accounts"
        /\ UNCHANGED err
     \/ /\ Exit(Error("DBError", "update_refresh_token"))
        /\ UNCHANGED << table, committed, questrade_api >>
  /\ UNCHANGED << serverVars, run, opt, refresh_token, resp, token, table0,
                  fetchVars, assetVars, showVars, clientVars >>

(* ------------------- AssetTracker::new (asset_tracker.rs) -------------- *)

\* the account whose data is being fetched
account == accounts[acct]

\* make_request(..).await? or serde_json::from_str(..)? fails while the data
\* of account a is fetched (a = 0: the account listing): the error leaves
\* AssetTracker::new, and main reports it and returns
FetchFails(a) ==
  \E e \in FetchErrors :
    /\ Exit(e)
    /\ failed_fetch' = a

\* v1/accounts
AssetTracker_new_accounts ==
  /\ pc = "accounts"
  /\ requests' = Append(requests, << "accounts", 0 >>)
  /\ \/ \E n \in 0..MaxAccounts :
          /\ accounts' = [i \in 1..n |-> i]
          /\ acct' = IF n = 0 THEN 0 ELSE 1
          /\ pc' = IF n = 0 THEN "loop" ELSE "balances"
          /\ UNCHANGED << err, failed_fetch >>
     \/ /\ FetchFails(0)
        /\ UNCHANGED << accounts, acct >>
  /\ UNCHANGED << storeVars, serverVars, run, opt, refresh_token, resp, token,
                  questrade_api, committed, table0, acct_positions, pos, balances,
                  positions, symbols, assetVars, showVars, clientVars >>

\* v1/accounts/{}/balances
AssetTracker_new_balances ==
  /\ pc = "balances"
  /\ requests' = Append(requests, << "balances", account >>)
  /\ \/ /\ balances' = balances \cup { account }
        /\ pc' = "positions"
        /\ UNCHANGED << err, failed_fetch >>
     \/ /\ FetchFails(acct)
        /\ UNCHANGED balances
  /\ UNCHANGED << storeVars, serverVars, run, opt, refresh_token, resp, token,
                  questrade_api, committed, table0, accounts, acct, acct_positions,
                  pos, positions, symbols, assetVars, showVars, clientVars >>

\* v1/accounts/{}/positions
AssetTracker_new_positions ==
  /\ pc = "positions"
  /\ requests' = Append(requests, << "positions", account >>)
  /\ \/ \E ps \in SeqsUpTo(RunPool, MaxPositions) :
          /\ acct_positions' = ps
          /\ pos' = IF ps = << >> THEN 0 ELSE 1
          /\ pc' = IF ps = << >> THEN "add" ELSE "symbol"
          /\ UNCHANGED << err, failed_fetch >>
     \/ /\ FetchFails(acct)
        /\ UNCHANGED << acct_positions, pos >>
  /\ UNCHANGED << storeVars, serverVars, run, opt, refresh_token, resp, token,
                  questrade_api, committed, table0, accounts, acct, balances,
                  positions, symbols, assetVars, showVars, clientVars >>

\* symbols.insert(symbol.symbol_id, symbol.clone())
symbols_insert(map, symbol) ==
  [k \in DOMAIN map \cup { symbol.symbol_id } |->
     IF k = symbol.symbol_id THEN symbol ELSE map[k]]

\* v1/symbols/{}, for the position at pos: the first symbol of the answer,
\* if there is one, goes into the symbol map
AssetTracker_new_symbol ==
  /\ pc = "symbol"
  /\ requests' = Append(requests, << "symbol", acct_positions[pos].symbol_id >>)
  /\ \/ /\ \/ UNCHANGED symbols
           \/ \E d \in Dividends :
                symbols' = symbols_insert(symbols, Symbol(acct_positions[pos].symbol_id, d))
        /\ pos' = pos + 1
        /\ pc' = IF pos = Len(acct_positions) THEN "add" ELSE "symbol"
        /\ UNCHANGED << err, failed_fetch >>
     \/ /\ FetchFails(acct)
        /\ UNCHANGED << symbols, pos >>
  /\ UNCHANGED << storeVars, serverVars, run, opt, refresh_token, resp, token,
                  questrade_api, committed, table0, accounts, acct, acct_positions,
                  balances, positions, assetVars, showVars, clientVars >>

\* assets.add_positions(&acct_positions); positions.insert(..); the loop
\* goes to the next account, or AssetTracker::new returns Ok
AssetTracker_new_add_positions ==
  /\ pc = "add"
  /\ assets' = add_positions(assets, acct_positions)
  /\ asset_iter' \in IterOrders(asset_iter, DOMAIN assets'.asset_map)
  /\ class_iter' \in IterOrders(class_iter, DOMAIN assets'.class_map)
  /\ fed' = fed \o acct_positions
  /\ positions' = positions \cup { account }
  /\ acct' = acct + 1
  /\ summary' = None
  /\ repeated' = FALSE
  /\ pc' = IF acct = Len(accounts) THEN "loop" ELSE "balances"
  /\ UNCHANGED << storeVars, serverVars, run, opt, refresh_token, resp, token,
                  questrade_api, err, committed, table0, requests, accounts,
                  acct_positions, pos, balances, symbols, failed_fetch,
                  clientVars >>

(* ------------------------ main: the command loop ----------------------- *)

\* "summary" and "home": println!("{}", self.assets)
main_loop_summary ==
  /\ pc = "loop"
  /\ summary' = Some(fmt(assets, asset_iter, class_iter))
  /\ repeated' = (summary # None)
  /\ UNCHANGED << storeVars, serverVars, rotVars, fetchVars, assetVars, clientVars >>

\* "quit"
main_loop_quit ==
  /\ pc = "loop"
  /\ pc' = "exit"
  /\ UNCHANGED << storeVars, serverVars, run, opt, refresh_token, resp, token,
                  questrade_api, err, committed, table0, fetchVars, assetVars,
                  showVars, clientVars >>

\* the process is killed (Ctrl+C) wherever it is
interrupt ==
  /\ pc \notin { "idle", "exit" }
  /\ Exit(Error("interrupted", ""))
  /\ UNCHANGED << storeVars, serverVars, run, opt, refresh_token, resp, token,
                  questrade_api, committed, table0, fetchVars, assetVars,
                  showVars, clientVars >>

Init ==
  /\ table = << >>
  /\ srv_valid = {}
  /\ srv_next = 1
  /\ run = 0
  /\ pc = "idle"
  /\ opt = None
  /\ refresh_token = None
  /\ resp = None
  /\ token = None
  /\ questrade_api = None
  /\ err = NoError
  /\ committed = FALSE
  /\ table0 = << >>
  /\ requests = << >>
  /\ accounts = << >>
  /\ acct = 0
  /\ acct_positions = << >>
  /\ pos = 0
  /\ balances = {}
  /\ positions = {}
  /\ symbols = EmptyMap
  /\ failed_fetch = 0
  /\ assets = Assets_new
  /\ asset_iter = << >>
  /\ class_iter = << >>
  /\ fed = << >>
  /\ summary = None
  /\ repeated = FALSE
  /\ handles = [c \in 1..MaxClients |-> None]
  /\ last_swap = None

Next ==
  \/ main_start
  \/ main_DatabaseAPI_new
  \/ main_insert_refresh_token
  \/ QuestradeAPI_new_get_refresh_token
  \/ QuestradeAPI_new_get_oauth2_token
  \/ QuestradeAPI_new_update_refresh_token
  \/ AssetTracker_new_accounts
  \/ AssetTracker_new_balances
  \/ AssetTracker_new_positions
  \/ AssetTracker_new_symbol
  \/ AssetTracker_new_add_positions
  \/ main_loop_summary
  \/ main_loop_quit
  \/ interrupt

Spec == Init /\ [][Next]_vars

(* ------------- the store used directly by several clients ------------- *)

\* a client inserts a token
Store_insert_refresh_token ==
  /\ Len(table) < MaxRows
  /\ \E t \in Tokens : table' = insert_refresh_token(table, t)
  /\ UNCHANGED << serverVars, rotVars, fetchVars, assetVars, showVars, clientVars >>

\* client c reads the RefreshToken
Store_get_refresh_token ==
  /\ get_refresh_token(table) # None
  /\ \E c \in 1..MaxClients :
       handles' = [handles EXCEPT ![c] = get_refresh_token(table)]
  /\ UNCHANGED << storeVars, serverVars, rotVars, fetchVars, assetVars, showVars,
                  last_swap >>

\* the value stored now in the row a RefreshToken was read from
stored_value(tbl, tok) == tbl[CHOOSE i \in DOMAIN tbl : tbl[i].id = tok.id].refresh_token

\* client c calls update_refresh_token with the RefreshToken it read and a
\* new value, and drops the RefreshToken; the call returns Ok, or Err when
\* the database fails, and then the table is as it was
Store_update_refresh_token ==
  \E c \in 1..MaxClients, new_value \in Tokens :
    /\ handles[c] # None
    /\ handles' = [handles EXCEPT ![c] = None]
    /\ \/ /\ table' = update_refresh_token(table, handles[c][1], new_value)
          /\ last_swap' = Some([expected |-> handles[c][1].refresh_token,
                                stored |-> stored_value(table, handles[c][1]),
                                new_value |-> new_value,
                                result |-> "Ok",
                                after |-> stored_value(table', handles[c][1])])
       \/ /\ UNCHANGED table
          /\ last_swap' = Some([expected |-> handles[c][1].refresh_token,
                                stored |-> stored_value(table, handles[c][1]),
                                new_value |-> new_value,
                                result |-> "Err",
                                after |-> stored_value(table, handles[c][1])])
    /\ UNCHANGED << serverVars, rotVars, fetchVars, assetVars, showVars >>

NextStore ==
  \/ Store_insert_refresh_token
  \/ Store_get_refresh_token
  \/ Store_update_refresh_token

SpecStore == Init /\ [][NextStore]_vars

(* -------------------- the aggregator used on its own ------------------- *)

\* the positions given to add_positions
PositionPool ==
  { Position("AAPL", 1, 1000, 1200), Position("BND", 2, 500, 520),
    Position("AAPL", 1, 200, 210), Position("XEQT.TO", 3, 1, 1),
    Position("ZAG.TO", 4, 1, 1), Position("XEQT.TO", 3, 0, 0),
    Position("ZAG.TO", 4, 1, -1) }

\* add_positions(&positions) on the Assets value
Assets_add_positions ==
  \E ps \in SeqsUpTo(PositionPool, MaxBatch) :
    /\ Len(fed) + Len(ps) <= MaxFed
    /\ assets' = add_positions(assets, ps)
    /\ asset_iter' \in IterOrders(asset_iter, DOMAIN assets'.asset_map)
    /\ class_iter' \in IterOrders(class_iter, DOMAIN assets'.class_map)
    /\ fed' = fed \o ps
    /\ summary' = None
    /\ repeated' = FALSE
    /\ UNCHANGED << storeVars, serverVars, rotVars, fetchVars, clientVars >>

\* a Display that hashes the maps anew each time it iterates them
Assets_fmt_rehashing ==
  /\ asset_iter' \in Perms(DOMAIN assets.asset_map)
  /\ class_iter' \in Perms(DOMAIN assets.class_map)
  /\ summary' = Some(fmt(assets, asset_iter', class_iter'))
  /\ repeated' = (summary # None)
  /\ UNCHANGED << storeVars, serverVars, rotVars, fetchVars, assets, fed, clientVars >>

\* format!("{}", assets): Display for Assets, which takes &self
Assets_fmt ==
  /\ summary' = Some(fmt(assets, asset_iter, class_iter))
  /\ repeated' = (summary # None)
  /\ UNCHANGED << storeVars, serverVars, rotVars, fetchVars, assetVars, clientVars >>

NextAssets ==
  \/ Assets_add_positions
  \/ Assets_fmt

SpecAssets == Init /\ [][NextAssets]_vars

(* ------------- the aggregator on holdings near the margins ------------- *)

\* positions whose class percentages lie on and next to the margins:
\* 48 : 52 of 100, 257 : 284 of 541 (47.5046 % and 52.4954 %), a Cash
\* holding, and holdings that bring the total to zero
BandPool ==
  { Position("XEQT.TO", 3, 1, 48), Position("ZAG.TO", 4, 1, 52),
    Position("XEQT.TO", 3, 1, 257), Position("ZAG.TO", 4, 1, 284),
    Position("AAPL", 1, 1, 5), Position("ZAG.TO", 4, 1, -48),
    Position("XEQT.TO", 3, 0, 0) }

\* add_positions(&positions) with positions of BandPool
Bands_add_positions ==
  \E ps \in SeqsUpTo(BandPool, MaxBatch) :
    /\ Len(fed) + Len(ps) <= MaxFed
    /\ assets' = add_positions(assets, ps)
    /\ asset_iter' \in IterOrders(asset_iter, DOMAIN assets'.asset_map)
    /\ class_iter' \in IterOrders(class_iter, DOMAIN assets'.class_map)
    /\ fed' = fed \o ps
    /\ summary' = None
    /\ repeated' = FALSE
    /\ UNCHANGED << storeVars, serverVars, rotVars, fetchVars, clientVars >>

NextBands ==
  \/ Bands_add_positions
  \/ Assets_fmt

SpecBands == Init /\ [][NextBands]_vars

(* ------------------------------- claims -------------------------------- *)

\* the sum of component j of the buckets of a map
RECURSIVE SumBuckets(_, _)
SumBuckets(map, j) ==
  IF DOMAIN map = {} THEN 0
  ELSE LET k == CHOOSE x \in DOMAIN map : TRUE
       IN  map[k][j] + SumBuckets([x \in DOMAIN map \ {k} |-> map[x]], j)

\* the sums of total_cost and of current_market_value over the positions
\* of ps at the indices in I
RECURSIVE SumPositions(_, _)
SumPositions(ps, I) ==
  IF I = {} THEN << 0, 0 >>
  ELSE LET i == CHOOSE x \in I : TRUE
           rest == SumPositions(ps, I \ {i})
       IN  << ps[i].total_cost + rest[1], ps[i].current_market_value + rest[2] >>

\* the class the static mapping gives a symbol: Cash when it has none
MappedClass(symbol) ==
  IF symbol \in { "XEQT.TO", "ZEQT.TO" } THEN "Stocks"
  ELSE IF symbol = "ZAG.TO" THEN "Bonds"
  ELSE "Cash"

\* C1: in a run whose exchange returned the next refresh token B for the
\* token A read from the store and whose store update returned Ok, a read
\* of the store returns exactly B, and not A.
C1_StoreHoldsNextToken ==
  committed =>
    /\ get_refresh_token(table) # None
    /\ get_refresh_token(table)[1].refresh_token = token[1].refresh_token
    /\ get_refresh_token(table)[1].refresh_token # refresh_token[1].refresh_token

C1_Witness ==
  /\ committed
  /\ pc = "loop"
  /\ get_refresh_token(table)[1].refresh_token = token[1].refresh_token

\* C2: a run has issued a data-fetch call only if its exchange succeeded and
\* its store update returned Ok before; a run whose rotation did not commit
\* has issued no data-fetch call and has built no aggregate.
C2_NoFetchBeforeCommit ==
  /\ requests # << >> => (token # None /\ committed)
  /\ pc \in { "accounts", "balances", "positions", "symbol", "add", "loop" } => committed
  /\ ~committed => (requests = << >> /\ assets = Assets_new /\ fed = << >>)

C2_Witness ==
  /\ committed
  /\ Len(requests) >= 3
  /\ fed # << >>

\* C3: update_refresh_token fails with Conflict and leaves the stored token
\* as it is whenever the stored value differs from the value of the
\* RefreshToken that was read.
C3_SwapIsCompareAndSwap ==
  last_swap # None =>
    (last_swap[1].stored # last_swap[1].expected =>
       /\ last_swap[1].result = "Conflict"
       /\ last_swap[1].after = last_swap[1].stored)

\* C4 as stated: when the exchange succeeded and the store update failed, the
\* access token of the exchange is available to the run for its data fetches
\* and the persistence error is reported.
C4_TokenUsableAfterFailedUpdate ==
  err = Error("DBError", "update_refresh_token") =>
    /\ questrade_api # None
    /\ questrade_api = token

\* C4 as amended: when the exchange succeeded and the store update failed,
\* the run reports the database error and ends: main holds no QuestradeAPI,
\* so the access token is dropped, no data fetch is issued, and the store is
\* as the update found it.
C4_FailedUpdateEndsRun ==
  err = Error("DBError", "update_refresh_token") =>
    /\ token # None
    /\ ~committed
    /\ questrade_api = None
    /\ requests = << >>
    /\ pc = "exit"
    /\ get_refresh_token(table) = refresh_token

C4_Witness ==
  /\ err = Error("DBError", "update_refresh_token")
  /\ token # None
  /\ resp # None
  /\ resp[1].status = "2xx"

\* C5: when the authorization endpoint answers the exchange with a non-2xx
\* response, the run ends with an APIError carrying the response body, no
\* store update is made and the stored refresh token is the one read.
C5_Non2xxIsAuthError ==
  (resp # None /\ resp[1].status = "non2xx") =>
    /\ err.kind = "APIError"
    /\ err.msg = resp[1].body
    /\ ~committed
    /\ get_refresh_token(table) = refresh_token

\* C6: the step in which a fetch for one account fails leaves the run in the
\* account loop or, after the last account, in the command loop: the failure
\* does not end the run.
C6_FetchFailureSkipsAccount ==
  [][(failed_fetch = 0 /\ failed_fetch' # 0) => pc' \in { "balances", "loop" }]_vars

\* C7: after any sequence of add_positions calls, the market values of the
\* symbol buckets and those of the class buckets each add up to the grand
\* total market value.
C7_BucketSumsEqualTotal ==
  /\ SumBuckets(assets.asset_map, 2) = assets.total_market_values
  /\ SumBuckets(assets.class_map, 2) = assets.total_market_values

C7_Witness ==
  /\ Len(fed) = MaxFed
  /\ Cardinality(DOMAIN assets.asset_map) = 2
  /\ Cardinality(DOMAIN assets.class_map) = 1
  /\ assets.total_market_values # 0

\* C8: each symbol bucket holds the sums of total_cost and
\* current_market_value over exactly the positions with that symbol, each
\* class bucket the sums over exactly the positions whose symbol the static
\* mapping gives that class (Cash when the mapping lacks the symbol), so
\* AAPL 1000/1200, BND 500/520, AAPL 200/210 gives AAPL 1200/1410,
\* BND 500/520 and the total value 1930.
C8_BucketsAreSumsOfTheirPositions ==
  /\ DOMAIN assets.asset_map = { fed[i].symbol : i \in DOMAIN fed }
  /\ \A s \in DOMAIN assets.asset_map :
       assets.asset_map[s] = SumPositions(fed, { i \in DOMAIN fed : fed[i].symbol = s })
  /\ DOMAIN assets.class_map = { MappedClass(fed[i].symbol) : i \in DOMAIN fed }
  /\ \A c \in DOMAIN assets.class_map :
       assets.class_map[c] =
         SumPositions(fed, { i \in DOMAIN fed : MappedClass(fed[i].symbol) = c })
  /\ fed = << Position("AAPL", 1, 1000, 1200), Position("BND", 2, 500, 520),
              Position("AAPL", 1, 200, 210) >>
       => /\ assets.asset_map["AAPL"] = << 1200, 1410 >>
          /\ assets.asset_map["BND"] = << 500, 520 >>
          /\ assets.total_market_values = 1930

C8_Witness ==
  /\ fed = << Position("AAPL", 1, 1000, 1200), Position("BND", 2, 500, 520),
              Position("AAPL", 1, 200, 210) >>
  /\ assets.asset_map["AAPL"] = << 1200, 1410 >>
  /\ assets.class_map["Cash"] = << 1700, 1930 >>

C10_ZeroTotalReportsNoData ==
  (summary # None /\ summary[1].total_market_values = 0) =>
    /\ \A i \in DOMAIN summary[1].asset_comp :
         summary[1].asset_comp[i].percent.kind = "num"
    /\ \A i \in DOMAIN summary[1].simplified_comp :
         summary[1].simplified_comp[i].percent.text.kind = "num"

\* C11: the store holds at most one refresh-token record, and a token given
\* with --auth is the token the same run reads for its exchange.
C11_SingleRecordSeedIsRead ==
  /\ Len(table) <= 1
  /\ (opt # None /\ refresh_token # None) => refresh_token[1].refresh_token = opt[1]

\* the refresh token a read of the store returns is one the authorization
\* server still accepts
PersistedAccepted ==
  table = << >> \/ get_refresh_token(table)[1].refresh_token \in srv_valid

\* C12 as stated: in every reachable state the persisted refresh token is
\* the next unused token, never one an exchange has consumed.
C12_PersistedIsNextUnused == PersistedAccepted

\* C12 as amended: the persisted refresh token is one the server accepts
\* once the store update of a run has returned Ok, and it stays one over
\* every step but a successful exchange; between a successful exchange and
\* the Ok of its update, and for good when the run is interrupted or the
\* update fails in between, the store holds the consumed token.
C12_PersistedAcceptedOutsideExchange ==
  /\ [](committed => PersistedAccepted)
  /\ [][(PersistedAccepted /\ ~(token = None /\ token' # None))
          => PersistedAccepted']_vars

C12_Witness ==
  /\ pc = "exit"
  /\ token # None
  /\ ~committed
  /\ ~PersistedAccepted
  /\ err \in { Error("interrupted", ""), Error("DBError", "update_refresh_token") }

\* C13: within one run, an entry of the symbol map is never replaced or
\* changed by a later symbol lookup.
C13_SymbolEntryNeverChanges ==
  [][run' = run =>
       \A k \in DOMAIN symbols : k \in DOMAIN symbols' /\ symbols'[k] = symbols[k]]_vars

\* the symbol lookups a run has issued for symbol_id k
Lookups(k) == { i \in DOMAIN requests : requests[i] = << "symbol", k >> }

\* C14: within one run, the symbol lookup is issued at most once for each
\* symbol_id.
C14_OneLookupPerSymbol ==
  \A i \in DOMAIN requests :
    requests[i][1] = "symbol" => Cardinality(Lookups(requests[i][2])) <= 1

\* the index of key k in the sequence of keys iter
IndexIn(iter, k) == CHOOSE i \in DOMAIN iter : iter[i] = k

\* the keys in the order in which add_positions first inserted them
FirstSymbols == { i \in DOMAIN fed : \A j \in 1..(i - 1) : fed[j].symbol # fed[i].symbol }

FirstClasses ==
  { i \in DOMAIN fed : \A j \in 1..(i - 1) : classify(fed[j].symbol) # classify(fed[i].symbol) }

FirstSymbol(k) == CHOOSE i \in FirstSymbols : fed[i].symbol = k

FirstClass(c) == CHOOSE i \in FirstClasses : classify(fed[i].symbol) = c

\* rows is ordered by descending mkt_val, rows of equal mkt_val by rank,
\* where rank[i] is the rank of row i
Ordered(rows, rank) ==
  \A i, j \in DOMAIN rows :
    i < j => \/ rows[i].mkt_val > rows[j].mkt_val
             \/ rows[i].mkt_val = rows[j].mkt_val /\ rank[i] < rank[j]

\* C15 as stated: the symbol buckets and the class buckets of a summary are
\* in descending order of market value, and buckets of equal market value are
\* in the order of their first insertion into the aggregator.
C15_TiesInInsertionOrder ==
  summary # None =>
    LET a_rows == summary[1].asset_comp
        c_rows == summary[1].simplified_comp
    IN  /\ Ordered(a_rows, [i \in DOMAIN a_rows |-> FirstSymbol(a_rows[i].symbol)])
        /\ Ordered(c_rows, [i \in DOMAIN c_rows |-> FirstClass(c_rows[i].asset_class)])

\* C15 as amended: each bucket is listed once, the buckets are in descending
\* order of market value, and buckets of equal market value are in the
\* iteration order the map has while it is not modified.
C15_TiesInIterationOrder ==
  summary # None =>
    LET a_rows == summary[1].asset_comp
        c_rows == summary[1].simplified_comp
    IN  /\ { a_rows[i].symbol : i \in DOMAIN a_rows } = DOMAIN assets.asset_map
        /\ Len(a_rows) = Cardinality(DOMAIN assets.asset_map)
        /\ { c_rows[i].asset_class : i \in DOMAIN c_rows } = DOMAIN assets.class_map
        /\ Len(c_rows) = Cardinality(DOMAIN assets.class_map)
        /\ Ordered(a_rows, [i \in DOMAIN a_rows |-> IndexIn(asset_iter, a_rows[i].symbol)])
        /\ Ordered(c_rows, [i \in DOMAIN c_rows |-> IndexIn(class_iter, c_rows[i].asset_class)])

C15_Witness ==
  /\ summary # None
  /\ Len(summary[1].asset_comp) = 3
  /\ summary[1].asset_comp[1].mkt_val > summary[1].asset_comp[2].mkt_val
  /\ summary[1].asset_comp[2].mkt_val = summary[1].asset_comp[3].mkt_val
  /\ FirstSymbol(summary[1].asset_comp[2].symbol) > FirstSymbol(summary[1].asset_comp[3].symbol)
  /\ Len(summary[1].simplified_comp) = 3
  /\ summary[1].simplified_comp[2].mkt_val = summary[1].simplified_comp[3].mkt_val

\* C16 as stated: the band of a class bucket is decided by
\* |target - actual| of the percentage as divided, unrounded: green below
\* 2.5, red from 5.0 on, yellow otherwise (all in hundredths of a percent,
\* multiplied through by the total).
C16_BandFromUnroundedPercent ==
  (summary # None /\ summary[1].total_market_values # 0) =>
    \A i \in DOMAIN summary[1].simplified_comp :
      LET row == summary[1].simplified_comp[i]
          total == summary[1].total_market_values
          target == IF row.asset_class \in { "Stocks", "Bonds" } THEN 5000 ELSE 0
          delta == Abs(target * total - row.mkt_val * 10000)
      IN  /\ row.percent.colour = "green" <=> delta < 250 * Abs(total)
          /\ row.percent.colour = "red" <=> delta >= 500 * Abs(total)
          /\ row.percent.colour \in { "green", "yellow", "red" }

\* C16 as amended: the band is decided by |target - actual| of the percentage
\* rounded to two decimals, halves away from zero: green below 2.5, red from
\* 5.0 on, yellow otherwise; a NaN percentage is yellow, an infinite one red;
\* 48 of 100 in Stocks is green.
C16_BandFromRoundedPercent ==
  summary # None =>
    \A i \in DOMAIN summary[1].simplified_comp :
      LET row == summary[1].simplified_comp[i]
          total == summary[1].total_market_values
          target == IF row.asset_class \in { "Stocks", "Bonds" } THEN 5000 ELSE 0
          actual == RoundDiv(row.mkt_val * 10000, total)
          delta == Abs(target - actual)
      IN  /\ row.percent.colour \in { "green", "yellow", "red" }
          /\ total # 0 =>
               /\ row.percent.colour = "green" <=> delta < 250
               /\ row.percent.colour = "red" <=> delta >= 500
          /\ (total = 0 /\ row.mkt_val = 0) => row.percent.colour = "yellow"
          /\ (total = 0 /\ row.mkt_val # 0) => row.percent.colour = "red"
          /\ (total = 100 /\ row.mkt_val = 48 /\ row.asset_class = "Stocks")
               => row.percent.colour = "green"

C16_Witness ==
  /\ summary # None
  /\ summary[1].total_market_values = 541
  /\ \E i \in DOMAIN summary[1].simplified_comp :
       /\ summary[1].simplified_comp[i].asset_class = "Stocks"
       /\ summary[1].simplified_comp[i].mkt_val = 257
       /\ summary[1].simplified_comp[i].percent.text.centi = 4750
       /\ summary[1].simplified_comp[i].percent.colour = "yellow"

====
